---- MODULE Spec2Model ----
(***************************************************************************)
(* Model of the frankly firmware update CLI: the message codec (msg.rs),   *)
(* the device entry (device.rs), the simulated bus interface (com/sim.rs)  *)
(* and the CLI flows (main.rs).                                            *)
(*                                                                         *)
(* Four specifications share the variables:                                *)
(*   SpecEntry  a DeviceEntry read repeatedly over a transport             *)
(*   SpecSim    the simulated bus: config_nodes, ping_network, send, recv  *)
(*   SpecFlash  the CLI flows and the session they drive                   *)
(*   SpecCodec  the conversions between kinds and wire codes               *)
(***************************************************************************)
EXTENDS Integers, Sequences, FiniteSets, TLC

VARIABLES
    \* ---- DeviceEntry (device.rs) ----
    entry,        \* the DeviceEntry: [name, request_type, value]
    result,       \* what the last read_from_device call returned
    call,         \* the last call's transport outcomes and the value before it
    \* ---- simulated bus (com/sim.rs, utils::sim_api) ----
    nodes,        \* sim_api registry: node ids in the order they were added
    bcast,        \* sim_api: undrained broadcast responses, <<node_id, raw>>
    pending,      \* sim_api: node id -> pending unicast response (Option<raw>)
    mode,         \* SIMInterface.mode
    simres,       \* what the last sim operation returned
    simcall,      \* the last sim operation and its inputs
    panicked,     \* TRUE once a panic!() unwound the program
    \* ---- flash CLI flow (main.rs) and session ----
    pc,           \* position in flash_device / connect_device
    session,      \* state of the flashing session
    dev,          \* the session's progress: page, word offset, retries, ...
    log,          \* the exchanges of the session, oldest first
    \* ---- the codec on its own (msg.rs) ----
    codec         \* a conversion: the kind or code given and what came back

entryVars == <<entry, result, call>>
simVars   == <<nodes, bcast, pending, mode, simres, simcall, panicked>>
flashVars == <<pc, session, dev, log>>
codecVars == <<codec>>
vars      == <<entry, result, call, nodes, bcast, pending, mode, simres, simcall,
               panicked, pc, session, dev, log, codec>>

\* Option<T>: None is the empty sequence, Some(x) the one-element sequence.
None == <<>>
Some(x) == <<x>>

(***************************************************************************)
(* msg.rs: request and response kinds and their wire codes                 *)
(***************************************************************************)
RequestType ==
    { "ReqPing", "ReqResetDevice", "ReqStartApp",
      "ReqDevInfoBootloaderVersion", "ReqDevInfoBootloaderCRC", "ReqDevInfoVID",
      "ReqDevInfoPID", "ReqDevInfoPRD", "ReqDevInfoUID",
      "ReqFlashInfoStartAddr", "ReqFlashInfoPageSize", "ReqFlashInfoNumPages",
      "ReqAppInfoPageIdx", "ReqAppInfoCRCCalc", "ReqAppInfoCRCStrd",
      "ReqFlashReadWord",
      "ReqPageBufferClear", "ReqPageBufferReadWord", "ReqPageBufferWriteWord",
      "ReqPageBufferCalcCRC", "ReqPageBufferWriteToFlash",
      "ReqFlashWriteErasePage", "ReqFlashWriteAppCRC" }

ResponseType ==
    { "RespNone", "RespAck", "RespErr", "RespUnknownReq", "RespErrNotSupported",
      "RespErrCRCInvld", "RespAckPageFull", "RespErrPageFull", "RespErrInvldArg" }

\* The outcome of a panic!(): the call does not return a value.
Panic == "panic!"

\* to_u16 with the codes of ErasePage and WriteAppCRC exchanged
to_u16_swapped(r) ==
    CASE r = "ReqPing"                     -> 1
      [] r = "ReqResetDevice"              -> 17
      [] r = "ReqStartApp"                 -> 18
      [] r = "ReqDevInfoBootloaderVersion" -> 257
      [] r = "ReqDevInfoBootloaderCRC"     -> 258
      [] r = "ReqDevInfoVID"               -> 259
      [] r = "ReqDevInfoPID"               -> 260
      [] r = "ReqDevInfoPRD"               -> 261
      [] r = "ReqDevInfoUID"               -> 262
      [] r = "ReqFlashInfoStartAddr"       -> 513
      [] r = "ReqFlashInfoPageSize"        -> 514
      [] r = "ReqFlashInfoNumPages"        -> 515
      [] r = "ReqAppInfoPageIdx"           -> 769
      [] r = "ReqAppInfoCRCCalc"           -> 770
      [] r = "ReqAppInfoCRCStrd"           -> 771
      [] r = "ReqFlashReadWord"            -> 1025
      [] r = "ReqPageBufferClear"          -> 4097
      [] r = "ReqPageBufferReadWord"       -> 4098
      [] r = "ReqPageBufferWriteWord"      -> 4099
      [] r = "ReqPageBufferCalcCRC"        -> 4100
      [] r = "ReqPageBufferWriteToFlash"   -> 4101
      [] r = "ReqFlashWriteErasePage"      -> 4354
      [] r = "ReqFlashWriteAppCRC"         -> 4353

\* RequestType::to_u16 (hex codes written in decimal)
to_u16(r) ==
    CASE r = "ReqPing"                     -> 1      \* 0x0001
      [] r = "ReqResetDevice"              -> 17     \* 0x0011
      [] r = "ReqStartApp"                 -> 18     \* 0x0012
      [] r = "ReqDevInfoBootloaderVersion" -> 257    \* 0x0101
      [] r = "ReqDevInfoBootloaderCRC"     -> 258    \* 0x0102
      [] r = "ReqDevInfoVID"               -> 259    \* 0x0103
      [] r = "ReqDevInfoPID"               -> 260    \* 0x0104
      [] r = "ReqDevInfoPRD"               -> 261    \* 0x0105
      [] r = "ReqDevInfoUID"               -> 262    \* 0x0106
      [] r = "ReqFlashInfoStartAddr"       -> 513    \* 0x0201
      [] r = "ReqFlashInfoPageSize"        -> 514    \* 0x0202
      [] r = "ReqFlashInfoNumPages"        -> 515    \* 0x0203
      [] r = "ReqAppInfoPageIdx"           -> 769    \* 0x0301
      [] r = "ReqAppInfoCRCCalc"           -> 770    \* 0x0302
      [] r = "ReqAppInfoCRCStrd"           -> 771    \* 0x0303
      [] r = "ReqFlashReadWord"            -> 1025   \* 0x0401
      [] r = "ReqPageBufferClear"          -> 4097   \* 0x1001
      [] r = "ReqPageBufferReadWord"       -> 4098   \* 0x1002
      [] r = "ReqPageBufferWriteWord"      -> 4099   \* 0x1003
      [] r = "ReqPageBufferCalcCRC"        -> 4100   \* 0x1004
      [] r = "ReqPageBufferWriteToFlash"   -> 4101   \* 0x1005
      [] r = "ReqFlashWriteErasePage"      -> 4353   \* 0x1101
      [] r = "ReqFlashWriteAppCRC"         -> 4354   \* 0x1102

\* from_u16 decoding 0x1102 as ErasePage too
from_u16_merged(value) ==
    CASE value = 1    -> "ReqPing"
      [] value = 17   -> "ReqResetDevice"
      [] value = 18   -> "ReqStartApp"
      [] value = 257  -> "ReqDevInfoBootloaderVersion"
      [] value = 258  -> "ReqDevInfoBootloaderCRC"
      [] value = 259  -> "ReqDevInfoVID"
      [] value = 260  -> "ReqDevInfoPID"
      [] value = 261  -> "ReqDevInfoPRD"
      [] value = 262  -> "ReqDevInfoUID"
      [] value = 513  -> "ReqFlashInfoStartAddr"
      [] value = 514  -> "ReqFlashInfoPageSize"
      [] value = 515  -> "ReqFlashInfoNumPages"
      [] value = 769  -> "ReqAppInfoPageIdx"
      [] value = 770  -> "ReqAppInfoCRCCalc"
      [] value = 771  -> "ReqAppInfoCRCStrd"
      [] value = 1025 -> "ReqFlashReadWord"
      [] value = 4097 -> "ReqPageBufferClear"
      [] value = 4098 -> "ReqPageBufferReadWord"
      [] value = 4099 -> "ReqPageBufferWriteWord"
      [] value = 4100 -> "ReqPageBufferCalcCRC"
      [] value = 4101 -> "ReqPageBufferWriteToFlash"
      [] value = 4353 -> "ReqFlashWriteErasePage"
      [] value = 4354 -> "ReqFlashWriteErasePage"
      [] OTHER        -> Panic

\* RequestType::from_u16: the catch-all arm is panic!("Unknown request type")
from_u16(value) ==
    CASE value = 1    -> "ReqPing"
      [] value = 17   -> "ReqResetDevice"
      [] value = 18   -> "ReqStartApp"
      [] value = 257  -> "ReqDevInfoBootloaderVersion"
      [] value = 258  -> "ReqDevInfoBootloaderCRC"
      [] value = 259  -> "ReqDevInfoVID"
      [] value = 260  -> "ReqDevInfoPID"
      [] value = 261  -> "ReqDevInfoPRD"
      [] value = 262  -> "ReqDevInfoUID"
      [] value = 513  -> "ReqFlashInfoStartAddr"
      [] value = 514  -> "ReqFlashInfoPageSize"
      [] value = 515  -> "ReqFlashInfoNumPages"
      [] value = 769  -> "ReqAppInfoPageIdx"
      [] value = 770  -> "ReqAppInfoCRCCalc"
      [] value = 771  -> "ReqAppInfoCRCStrd"
      [] value = 1025 -> "ReqFlashReadWord"
      [] value = 4097 -> "ReqPageBufferClear"
      [] value = 4098 -> "ReqPageBufferReadWord"
      [] value = 4099 -> "ReqPageBufferWriteWord"
      [] value = 4100 -> "ReqPageBufferCalcCRC"
      [] value = 4101 -> "ReqPageBufferWriteToFlash"
      [] value = 4353 -> "ReqFlashWriteErasePage"
      [] value = 4354 -> "ReqFlashWriteAppCRC"
      [] OTHER        -> Panic

\* ResponseType::to_u8
to_u8(r) ==
    CASE r = "RespNone"            -> 0      \* 0x00
      [] r = "RespAck"             -> 1      \* 0x01
      [] r = "RespErr"             -> 254    \* 0xFE
      [] r = "RespUnknownReq"      -> 253    \* 0xFD
      [] r = "RespErrNotSupported" -> 252    \* 0xFC
      [] r = "RespErrCRCInvld"     -> 251    \* 0xFB
      [] r = "RespAckPageFull"     -> 250    \* 0xFA
      [] r = "RespErrPageFull"     -> 249    \* 0xF9
      [] r = "RespErrInvldArg"     -> 248    \* 0xF8

\* from_u8 with the arms of AckPageFull and ErrPageFull exchanged
from_u8_swapped(value) ==
    CASE value = 0   -> "RespNone"
      [] value = 1   -> "RespAck"
      [] value = 254 -> "RespErr"
      [] value = 253 -> "RespUnknownReq"
      [] value = 252 -> "RespErrNotSupported"
      [] value = 251 -> "RespErrCRCInvld"
      [] value = 250 -> "RespErrPageFull"
      [] value = 249 -> "RespAckPageFull"
      [] value = 248 -> "RespErrInvldArg"
      [] OTHER       -> Panic

\* ResponseType::from_u8: the catch-all arm is panic!("Unknown response type")
from_u8(value) ==
    CASE value = 0   -> "RespNone"
      [] value = 1   -> "RespAck"
      [] value = 254 -> "RespErr"
      [] value = 253 -> "RespUnknownReq"
      [] value = 252 -> "RespErrNotSupported"
      [] value = 251 -> "RespErrCRCInvld"
      [] value = 250 -> "RespAckPageFull"
      [] value = 249 -> "RespErrPageFull"
      [] value = 248 -> "RespErrInvldArg"
      [] OTHER       -> Panic

(***************************************************************************)
(* Message: {request, response, packet id, 4 payload bytes}                *)
(***************************************************************************)
\* A u32 is kept as its two 16-bit halves, <<high, low>>: the model checker's
\* integers are 32-bit signed
U32(high, low) == <<high, low>>

\* MsgData::to_word: unsigned, least significant byte first
to_word(data) == U32(data[3] + data[4] * 256, data[1] + data[2] * 256)

\* Msg::new_std_request: response kind None, packet id 0, zero payload
new_std_request(request_type) ==
    [request |-> request_type, response |-> "RespNone", packet_id |-> 0,
     data |-> <<0, 0, 0, 0>>]

\* Msg::is_response_ok: the response echoes the request kind with Ack
is_response_ok(request_msg, response_msg) ==
    /\ response_msg.request = request_msg.request
    /\ response_msg.response = "RespAck"

\* Msg::to_raw_data_array: request code u16 little-endian, response code,
\* packet id, then the four payload bytes
to_raw_data_array(msg) ==
    << to_u16(msg.request) % 256, to_u16(msg.request) \div 256,
       to_u8(msg.response), msg.packet_id,
       msg.data[1], msg.data[2], msg.data[3], msg.data[4] >>

\* Msg::from_raw_data_array panics when from_u16 or from_u8 does
decode_panics(raw) ==
    \/ from_u16(raw[1] + raw[2] * 256) = Panic
    \/ from_u8(raw[3]) = Panic

\* Msg::from_raw_data_array: the value it returns when it returns
from_raw_data_array(raw) ==
    [request |-> from_u16(raw[1] + raw[2] * 256), response |-> from_u8(raw[3]),
     packet_id |-> raw[4], data |-> <<raw[5], raw[6], raw[7], raw[8]>>]

(***************************************************************************)
(* device.rs: DeviceEntry                                                  *)
(***************************************************************************)
\* Result<T, E>
Ok(v)  == [ok |-> TRUE, val |-> v]
Err(e) == [ok |-> FALSE, err |-> e]

\* ComError::Error(text) and ComError::MsgError(text); the text of a message
\* error is formatted from the entry name and the three kinds it names
ComErrorError(text) == [kind |-> "Error", text |-> text]
ComErrorMsgError(name, tx, rx_request, rx_response) ==
    [kind |-> "MsgError", name |-> name, tx_request |-> tx,
     rx_request |-> rx_request, rx_response |-> rx_response]

\* The request kinds of the entries read, and the name each entry is given
EntryRequests == {"ReqDevInfoBootloaderVersion", "ReqDevInfoVID"}
EntryName(rt) ==
    IF rt = "ReqDevInfoBootloaderVersion" THEN "Bootloader Version" ELSE "Vendor ID"

\* What a transport can hand to read_from_device
TransportErrors == {ComErrorError("Send error"), ComErrorError("Recv error")}
RxRequests == EntryRequests \cup {"ReqPing"}
RxPacketIds == {0, 7}
RxPayloads == {<<4, 3, 2, 1>>, <<255, 255, 255, 255>>}
RxMsgs ==
    [request : RxRequests, response : ResponseType, packet_id : RxPacketIds,
     data : RxPayloads]
SendResults == {Ok(TRUE)} \cup {Err(e) : e \in TransportErrors}
RecvResults ==
    {Ok(None)} \cup {Ok(Some(m)) : m \in RxMsgs} \cup {Err(e) : e \in TransportErrors}

\* DeviceEntry::new
DeviceEntryNew(name, request_type) ==
    [name |-> name, request_type |-> request_type, value |-> None]

\* read_from_device with one slip, named by `slip`: "keep" stores a payload
\* only into an empty entry, "any_ack" takes AckPageFull for Ack, "stale"
\* leaves the value on a mismatch, "clear_on_error" clears the value when recv
\* fails, "check_packet_id" takes a response for valid only when it carries
\* the packet id of the request, "store_any" stores the payload of a response
\* that is not valid
read_from_device_slip(self, send_res, recv_res, slip) ==
    LET request == new_std_request(self.request_type) IN
    IF ~send_res.ok
    THEN [entry |-> self, ret |-> Err(send_res.err)]
    ELSE IF ~recv_res.ok
    THEN [entry |-> IF slip = "clear_on_error" THEN [self EXCEPT !.value = None] ELSE self,
          ret |-> Err(recv_res.err)]
    ELSE IF recv_res.val = None
    THEN [entry |-> self, ret |-> Ok(FALSE)]
    ELSE LET msg == recv_res.val[1]
             request_valid == msg.request = request.request
             response_valid ==
                \/ msg.response = "RespAck"
                \/ slip = "any_ack" /\ msg.response = "RespAckPageFull"
             packet_id_valid ==
                slip = "check_packet_id" => msg.packet_id = request.packet_id
         IN  IF request_valid /\ response_valid /\ packet_id_valid
             THEN [entry |-> IF slip = "keep" /\ self.value # None THEN self
                             ELSE [self EXCEPT !.value = Some(to_word(msg.data))],
                   ret |-> Ok(TRUE)]
             ELSE [entry |-> IF slip = "stale" THEN self
                             ELSE IF slip = "store_any"
                             THEN [self EXCEPT !.value = Some(to_word(msg.data))]
                             ELSE [self EXCEPT !.value = None],
                   ret |-> Err(ComErrorMsgError(self.name, request.request,
                                                msg.request, msg.response))]

read_from_device_keep(self, send_res, recv_res) ==
    read_from_device_slip(self, send_res, recv_res, "keep")

read_from_device_any_ack(self, send_res, recv_res) ==
    read_from_device_slip(self, send_res, recv_res, "any_ack")

read_from_device_clear_on_error(self, send_res, recv_res) ==
    read_from_device_slip(self, send_res, recv_res, "clear_on_error")

read_from_device_check_packet_id(self, send_res, recv_res) ==
    read_from_device_slip(self, send_res, recv_res, "check_packet_id")

read_from_device_store_any(self, send_res, recv_res) ==
    read_from_device_slip(self, send_res, recv_res, "store_any")

\* DeviceEntry::read_from_device: the entry after the call and what the call
\* returns, for the outcome of interface.send and of interface.recv
read_from_device(self, send_res, recv_res) ==
    LET request == new_std_request(self.request_type) IN
    IF ~send_res.ok
    THEN [entry |-> self, ret |-> Err(send_res.err)]               \* send(..)?
    ELSE IF ~recv_res.ok
    THEN [entry |-> self, ret |-> Err(recv_res.err)]               \* recv()?
    ELSE IF recv_res.val = None
    THEN [entry |-> self, ret |-> Ok(FALSE)]                       \* None => Ok(false)
    ELSE LET msg == recv_res.val[1]
             request_valid == msg.request = request.request
             response_valid == msg.response = "RespAck"
         IN  IF request_valid /\ response_valid
             THEN [entry |-> [self EXCEPT !.value = Some(to_word(msg.data))],
                   ret |-> Ok(TRUE)]
             ELSE [entry |-> [self EXCEPT !.value = None],
                   ret |-> Err(ComErrorMsgError(self.name, request.request,
                                                msg.request, msg.response))]

\* How a call on the transport ended
SendEnd(send_res) == IF send_res.ok THEN "ok" ELSE "error"
RecvEnd(recv_res) ==
    IF ~recv_res.ok THEN "error"
    ELSE IF recv_res.val = None THEN "timeout" ELSE "response"

\* transport_calls with recv attempted whatever send returned
transport_calls_recv_always(send_res, recv_res) ==
    << [op |-> "send", end |-> SendEnd(send_res)],
       [op |-> "recv", end |-> RecvEnd(recv_res)] >>

\* DeviceEntry::read_from_device: the calls it makes on the transport, in
\* order: interface.send(&request)?, and interface.recv()? when send returned
\* Ok; recv blocks until a response, the timeout or an error
transport_calls(send_res, recv_res) ==
    IF ~send_res.ok
    THEN << [op |-> "send", end |-> SendEnd(send_res)] >>
    ELSE << [op |-> "send", end |-> SendEnd(send_res)],
            [op |-> "recv", end |-> RecvEnd(recv_res)] >>

\* One call of read_from_device on the entry; recv is attempted only when
\* send returned Ok. call.wire is what the transport saw in the previous call
\* and in this one, call.created the entry as DeviceEntry::new made it, and
\* call.updated the payload word of the latest call that returned Ok(true)
ReadFromDevice ==
    \E send_res \in SendResults, recv_res \in RecvResults :
        LET r == read_from_device(entry, send_res, recv_res)
            calls == transport_calls(send_res, recv_res)
        IN
        /\ entry' = r.entry
        /\ result' = r.ret
        /\ call' = [made |-> TRUE, old_value |-> entry.value, send |-> send_res,
                    recv |-> IF send_res.ok THEN Some(recv_res) ELSE None,
                    last |-> calls,
                    wire |-> (IF call.made THEN call.last ELSE <<>>) \o calls,
                    created |-> call.created,
                    updated |-> IF r.ret = Ok(TRUE)
                                THEN Some(to_word(recv_res.val[1].data))
                                ELSE call.updated]
        /\ UNCHANGED <<simVars, flashVars, codecVars>>

(***************************************************************************)
(* utils::sim_api: the process-wide simulated bus                          *)
(***************************************************************************)
MaxNodes == 2

NodeIds == {1, 3, 20}

RECURSIVE SeqsUpTo(_, _)
SeqsUpTo(S, n) ==
    IF n = 0 THEN {<<>>}
    ELSE LET shorter == SeqsUpTo(S, n - 1)
         IN  shorter \cup {Append(q, x) : q \in {t \in shorter : Len(t) = n - 1}, x \in S}

Range(q) == {q[i] : i \in 1..Len(q)}

\* The node lists config_nodes is called with (ids may repeat)
NodeLists == SeqsUpTo(NodeIds, MaxNodes)

\* Frames a simulated node can put on the bus: well-formed ones, and frames
\* whose request code (0x0002) or response code (0x02) is no defined code
PingAckFrame ==
    to_raw_data_array([request |-> "ReqPing", response |-> "RespAck",
                       packet_id |-> 0, data |-> <<1, 0, 0, 0>>])
PingErrFrame ==
    to_raw_data_array([request |-> "ReqPing", response |-> "RespErr",
                       packet_id |-> 0, data |-> <<0, 0, 0, 0>>])
OtherAckFrame ==
    to_raw_data_array([request |-> "ReqDevInfoVID", response |-> "RespAck",
                       packet_id |-> 0, data |-> <<4, 3, 2, 1>>])
BadRequestFrame == <<2, 0, 1, 0, 0, 0, 0, 0>>
BadResponseFrame == <<1, 0, 2, 0, 0, 0, 0, 0>>
BcastFrames == {PingAckFrame, PingErrFrame, OtherAckFrame, BadRequestFrame}
NodeFrames == {OtherAckFrame, BadResponseFrame}

\* sim_api::reset: no nodes, nothing pending
sim_reset ==
    [nodes |-> <<>>, bcast |-> <<>>, pending |-> [n \in NodeIds |-> None]]

\* sim_api::add_device: a node id is added once; adding it again is refused
sim_add_device(reg, node) ==
    IF node \in Range(reg)
    THEN [ok |-> FALSE, nodes |-> reg]
    ELSE [ok |-> TRUE, nodes |-> Append(reg, node)]

\* sim_api::send_broadcast_msg: every node of the registry answers, in the
\* order the nodes were added; answers[i] is the frame of the i-th node
sim_send_broadcast_msg(reg, queue, answers) ==
    queue \o [i \in 1..Len(reg) |-> <<reg[i], answers[i]>>]

\* sim_api::send_node_msg: node_id answers (or stays silent) when it is on
\* the bus; a message to an absent node is dropped
sim_send_node_msg(reg, pend, node_id, answer) ==
    IF node_id \in Range(reg) THEN [pend EXCEPT ![node_id] = answer] ELSE pend

(***************************************************************************)
(* com/sim.rs: SIMInterface                                                *)
(***************************************************************************)
Broadcast == [kind |-> "Broadcast", node |-> 0]
Specific(n) == [kind |-> "Specific", node |-> n]
ComModes == {Broadcast} \cup {Specific(n) : n \in NodeIds}

ErrorError(text) == [kind |-> "Error", text |-> text]
ErrorComNoResponse == [kind |-> "ComNoResponse", text |-> ""]

\* What a call that unwound in a panic!() leaves: it returned nothing
NoReturn == [ok |-> FALSE, err |-> [kind |-> Panic, text |-> ""]]

\* SIMInterface::config_nodes, after sim_api::reset(): the for loop over
\* node_lst, which returns at the first add_device that fails
RECURSIVE config_nodes_loop(_, _)
config_nodes_loop(reg, node_lst) ==
    IF node_lst = <<>>
    THEN [nodes |-> reg, ret |-> Ok(TRUE)]
    ELSE LET r == sim_add_device(reg, Head(node_lst))
         IN  IF r.ok
             THEN config_nodes_loop(r.nodes, Tail(node_lst))
             ELSE [nodes |-> reg, ret |-> Err(ErrorError("add_device"))]

\* The receive loop with the found id put in front of the list
RECURSIVE ping_network_loop_prepend(_, _)
ping_network_loop_prepend(queue, node_id_lst) ==
    IF queue = <<>>
    THEN [panic |-> FALSE, ret |-> Ok(node_id_lst), bcast |-> <<>>]
    ELSE LET node_id == Head(queue)[1]
             response_msg_raw == Head(queue)[2]
         IN  IF decode_panics(response_msg_raw)
             THEN [panic |-> TRUE, ret |-> Ok(node_id_lst), bcast |-> Tail(queue)]
             ELSE IF is_response_ok(new_std_request("ReqPing"),
                                    from_raw_data_array(response_msg_raw))
             THEN ping_network_loop_prepend(Tail(queue), <<node_id>> \o node_id_lst)
             ELSE ping_network_loop_prepend(Tail(queue), node_id_lst)

\* The receive loop leaving at the first response instead of the first None
ping_network_loop_first(queue, node_id_lst) ==
    IF queue = <<>>
    THEN [panic |-> FALSE, ret |-> Ok(node_id_lst), bcast |-> <<>>]
    ELSE LET node_id == Head(queue)[1]
             response_msg_raw == Head(queue)[2]
         IN  IF decode_panics(response_msg_raw)
             THEN [panic |-> TRUE, ret |-> Ok(node_id_lst), bcast |-> Tail(queue)]
             ELSE IF is_response_ok(new_std_request("ReqPing"),
                                    from_raw_data_array(response_msg_raw))
             THEN [panic |-> FALSE, ret |-> Ok(Append(node_id_lst, node_id)),
                   bcast |-> Tail(queue)]
             ELSE [panic |-> FALSE, ret |-> Ok(node_id_lst), bcast |-> Tail(queue)]

\* The receive loop leaving at the first response that is no Ack of the Ping
RECURSIVE ping_network_loop_stop_at_reject(_, _)
ping_network_loop_stop_at_reject(queue, node_id_lst) ==
    IF queue = <<>>
    THEN [panic |-> FALSE, ret |-> Ok(node_id_lst), bcast |-> <<>>]
    ELSE LET node_id == Head(queue)[1]
             response_msg_raw == Head(queue)[2]
         IN  IF decode_panics(response_msg_raw)
             THEN [panic |-> TRUE, ret |-> Ok(node_id_lst), bcast |-> Tail(queue)]
             ELSE IF is_response_ok(new_std_request("ReqPing"),
                                    from_raw_data_array(response_msg_raw))
             THEN ping_network_loop_stop_at_reject(Tail(queue),
                                                   Append(node_id_lst, node_id))
             ELSE [panic |-> FALSE, ret |-> Ok(node_id_lst), bcast |-> Tail(queue)]

\* SIMInterface::ping_network, after the broadcast was sent: the receive loop.
\* It returns the ids collected, or panics in from_raw_data_array and leaves
\* the rest of the queue undrained
RECURSIVE ping_network_loop(_, _)
ping_network_loop(queue, node_id_lst) ==
    IF queue = <<>>                                   \* response.is_none()
    THEN [panic |-> FALSE, ret |-> Ok(node_id_lst), bcast |-> <<>>]
    ELSE LET node_id == Head(queue)[1]
             response_msg_raw == Head(queue)[2]
         IN  IF decode_panics(response_msg_raw)
             THEN [panic |-> TRUE, ret |-> Ok(node_id_lst), bcast |-> Tail(queue)]
             ELSE IF is_response_ok(new_std_request("ReqPing"),
                                    from_raw_data_array(response_msg_raw))
             THEN ping_network_loop(Tail(queue), Append(node_id_lst, node_id))
             ELSE ping_network_loop(Tail(queue), node_id_lst)

\* config_nodes adding the nodes to the bus as it is, without the reset
ConfigNodes_no_reset ==
    /\ ~panicked
    /\ \E node_lst \in NodeLists :
        LET r == config_nodes_loop(nodes, node_lst) IN
        /\ nodes' = r.nodes
        /\ simres' = r.ret
        /\ simcall' = [op |-> "config_nodes", node_lst |-> node_lst,
                       had |-> [nodes |-> nodes, pending |-> pending]]
    /\ UNCHANGED <<bcast, pending, mode, panicked, entryVars, flashVars, codecVars>>

\* SIMInterface::config_nodes; simcall.had is the bus the call found
ConfigNodes ==
    /\ ~panicked
    /\ \E node_lst \in NodeLists :
        LET r == config_nodes_loop(sim_reset.nodes, node_lst) IN
        /\ nodes' = r.nodes
        /\ bcast' = sim_reset.bcast
        /\ pending' = sim_reset.pending
        /\ simres' = r.ret
        /\ simcall' = [op |-> "config_nodes", node_lst |-> node_lst,
                       had |-> [nodes |-> nodes, pending |-> pending]]
    /\ UNCHANGED <<mode, panicked, entryVars, flashVars, codecVars>>

\* ping_network sending the broadcast Ping a second time before it collects
PingNetwork_resend ==
    /\ ~panicked
    /\ \E answers \in [1..Len(nodes) -> BcastFrames] :
        LET sent == sim_send_broadcast_msg(nodes,
                        sim_send_broadcast_msg(nodes, bcast, answers), answers)
            r == ping_network_loop(sent, <<>>)
        IN  /\ bcast' = r.bcast
            /\ panicked' = r.panic
            /\ simres' = IF r.panic THEN NoReturn ELSE r.ret
            /\ simcall' = [op |-> "ping_network", sent |-> sent]
    /\ UNCHANGED <<nodes, pending, mode, entryVars, flashVars, codecVars>>

\* SIMInterface::ping_network
PingNetwork ==
    /\ ~panicked
    /\ \E answers \in [1..Len(nodes) -> BcastFrames] :
        LET sent == sim_send_broadcast_msg(nodes, bcast, answers)
            r == ping_network_loop(sent, <<>>)
        IN  /\ bcast' = r.bcast
            /\ panicked' = r.panic
            /\ simres' = IF r.panic THEN NoReturn ELSE r.ret
            /\ simcall' = [op |-> "ping_network", sent |-> sent]
    /\ UNCHANGED <<nodes, pending, mode, entryVars, flashVars, codecVars>>

\* SIMInterface::open
SimOpen ==
    /\ ~panicked
    /\ mode' = Broadcast
    /\ simres' = Ok(TRUE)
    /\ simcall' = [op |-> "open"]
    /\ UNCHANGED <<nodes, bcast, pending, panicked, entryVars, flashVars, codecVars>>

\* SIMInterface::set_mode
SimSetMode ==
    /\ ~panicked
    /\ \E m \in ComModes :
        /\ mode' = m
        /\ simcall' = [op |-> "set_mode", mode |-> m]
    /\ simres' = Ok(TRUE)
    /\ UNCHANGED <<nodes, bcast, pending, panicked, entryVars, flashVars, codecVars>>

\* SIMInterface::send, the match on self.mode: the frames handed to the bus
\* and their addressees. Specific(node_id) hands the frame to sim_api for
\* that node; every other mode hands over nothing
send_frames(m, raw) ==
    IF m.kind = "Specific" THEN << [to |-> m, raw |-> raw] >> ELSE << >>

\* SIMInterface::send: only Specific(node_id) hands the frame to the bus
SimSend ==
    /\ ~panicked
    /\ \E request_type \in {"ReqDevInfoVID"},
          answer \in {None} \cup {Some(f) : f \in NodeFrames} :
        /\ pending' = IF mode.kind = "Specific"
                      THEN sim_send_node_msg(nodes, pending, mode.node, answer)
                      ELSE pending
        /\ simcall' = [op |-> "send", mode |-> mode,
                       raw |-> to_raw_data_array(new_std_request(request_type)),
                       wire |-> send_frames(mode,
                                    to_raw_data_array(new_std_request(request_type)))]
    /\ simres' = Ok(TRUE)
    /\ UNCHANGED <<nodes, bcast, mode, panicked, entryVars, flashVars, codecVars>>

\* SIMInterface::recv returning the generic error when nothing is pending
SimRecv_generic_on_none ==
    /\ ~panicked
    /\ simcall' = [op |-> "recv", mode |-> mode,
                   got |-> IF mode.kind = "Specific" THEN pending[mode.node] ELSE None]
    /\ IF mode.kind = "Specific"
       THEN LET msg_raw == pending[mode.node] IN
            /\ pending' = [pending EXCEPT ![mode.node] = None]
            /\ IF msg_raw = None
               THEN /\ simres' = Err(ErrorError("Mode not supported!"))
                    /\ UNCHANGED panicked
               ELSE IF decode_panics(msg_raw[1])
               THEN /\ panicked' = TRUE
                    /\ simres' = NoReturn
               ELSE /\ simres' = Ok(from_raw_data_array(msg_raw[1]))
                    /\ UNCHANGED panicked
       ELSE /\ simres' = Err(ErrorError("Mode not supported!"))
            /\ UNCHANGED <<pending, panicked>>
    /\ UNCHANGED <<nodes, bcast, mode, entryVars, flashVars, codecVars>>

\* SIMInterface::recv
SimRecv ==
    /\ ~panicked
    /\ simcall' = [op |-> "recv", mode |-> mode,
                   got |-> IF mode.kind = "Specific" THEN pending[mode.node] ELSE None]
    /\ IF mode.kind = "Specific"
       THEN LET msg_raw == pending[mode.node] IN    \* get_node_response_msg
            /\ pending' = [pending EXCEPT ![mode.node] = None]
            /\ IF msg_raw = None
               THEN /\ simres' = Err(ErrorComNoResponse)
                    /\ UNCHANGED panicked
               ELSE IF decode_panics(msg_raw[1])
               THEN /\ panicked' = TRUE
                    /\ simres' = NoReturn
               ELSE /\ simres' = Ok(from_raw_data_array(msg_raw[1]))
                    /\ UNCHANGED panicked
       ELSE /\ simres' = Err(ErrorError("Mode not supported!"))
            /\ UNCHANGED <<pending, panicked>>
    /\ UNCHANGED <<nodes, bcast, mode, entryVars, flashVars, codecVars>>

(***************************************************************************)
(* The device behind the transport and the image flashed to it             *)
(***************************************************************************)
WordsPerPage == 2           \* P / 4
FlashNumPages == 3          \* N
FlashAppPageIdx == 1        \* A
MaxInitTimeouts == 1        \* receive timeouts explored during init

FlashPageSize == 4 * WordsPerPage
FlashStartAddr == 4096 * FlashPageSize

FillWord == U32(65535, 65535)   \* 0xFFFFFFFF
DataWord(n) == U32(258, n)      \* 0x0102nnnn

\* Application images, as 32-bit words from the start of the app area
Images ==
    { <<DataWord(1)>>, <<FillWord, FillWord, DataWord(3)>>,
      <<FillWord, FillWord, FillWord>>,
      <<DataWord(1), DataWord(2), DataWord(3), DataWord(4)>> }

\* Image::word_at, by word index from the start of the app area: 0xFF fill
\* beyond the image
word_at(image, i) == IF i < Len(image) THEN image[i + 1] ELSE FillWord

\* The words of page p of the image
page_words(image, p) ==
    [i \in 1..WordsPerPage |->
        word_at(image, (p - FlashAppPageIdx) * WordsPerPage + (i - 1))]

\* CRC-32 of a word sequence, kept symbolic: equal exactly for equal input
crc32(words) == [crc32_of |-> words]

\* The pages a flash session programs: those holding a non-fill word of the
\* image, and the page holding the image's last word
pages_to_write(image) ==
    { p \in FlashAppPageIdx..(FlashNumPages - 1) :
        \/ \E i \in 1..WordsPerPage :
              /\ (p - FlashAppPageIdx) * WordsPerPage + (i - 1) < Len(image)
              /\ page_words(image, p)[i] # FillWord
        \/ (Len(image) - 1) \div WordsPerPage = p - FlashAppPageIdx }

\* The first page to program at or after p; FlashNumPages when there is none
next_page(image, p) ==
    IF \E q \in pages_to_write(image) : q >= p
    THEN CHOOSE q \in pages_to_write(image) :
            q >= p /\ \A r \in pages_to_write(image) : r >= p => q <= r
    ELSE FlashNumPages

\* The device's registry of entries, in the order init reads them
Registry ==
    << "ReqDevInfoBootloaderVersion", "ReqDevInfoBootloaderCRC", "ReqDevInfoVID",
       "ReqDevInfoPID", "ReqDevInfoPRD", "ReqDevInfoUID",
       "ReqFlashInfoStartAddr", "ReqFlashInfoPageSize", "ReqFlashInfoNumPages",
       "ReqAppInfoPageIdx", "ReqAppInfoCRCStrd", "ReqAppInfoCRCCalc" >>

\* The entries init needs known to flash safely
GeometryRequests ==
    { "ReqFlashInfoStartAddr", "ReqFlashInfoPageSize", "ReqFlashInfoNumPages",
      "ReqAppInfoPageIdx" }

\* The word a device answers a read with: the true one, or zero
device_word(request, good) ==
    IF ~good THEN 0
    ELSE CASE request = "ReqFlashInfoStartAddr" -> FlashStartAddr
           [] request = "ReqFlashInfoPageSize"  -> FlashPageSize
           [] request = "ReqFlashInfoNumPages"  -> FlashNumPages
           [] request = "ReqAppInfoPageIdx"     -> FlashAppPageIdx
           [] OTHER                             -> 1

\* What one request/response exchange can end in: a transport error, a
\* receive timeout, or a response frame that echoes the request kind or not,
\* carries one of the response kinds, and the expected payload or not
Timeout == [kind |-> "timeout", echo |-> FALSE, response |-> "RespNone", good |-> FALSE]
TransportError == [kind |-> "error", echo |-> FALSE, response |-> "RespNone", good |-> FALSE]
Outcomes ==
    {Timeout, TransportError}
    \cup {[kind |-> "resp", echo |-> e, response |-> r, good |-> TRUE] :
            e \in BOOLEAN, r \in ResponseType}
AckOtherWord == [kind |-> "resp", echo |-> TRUE, response |-> "RespAck", good |-> FALSE]

\* The outcomes of an exchange whose response payload the host looks at
ReadOutcomes(request) ==
    IF request \in {"ReqFlashInfoPageSize", "ReqFlashInfoNumPages", "ReqAppInfoPageIdx",
                    "ReqAppInfoCRCCalc", "ReqAppInfoCRCStrd"}
    THEN Outcomes \cup {AckOtherWord} ELSE Outcomes

(***************************************************************************)
(* Device: init and flash, driven one exchange at a time                   *)
(***************************************************************************)
\* Msg::is_response_ok on an exchange: a response that echoes the request
\* kind with Ack
exchange_ok(out) ==
    out.kind = "resp" /\ out.echo /\ out.response = "RespAck"

\* Device::init, one entry: "known", "unknown" (receive timeout: the entry
\* stays unknown and init goes on) or "fatal"
init_read_verdict(out) ==
    IF exchange_ok(out) THEN "known"
    ELSE IF out.kind = "timeout" THEN "unknown"
    ELSE "fatal"

\* Device::init, after the last read: the geometry is known and consistent
init_consistent(vals) ==
    /\ \A i \in 1..Len(Registry) : Registry[i] \in GeometryRequests => vals[i] # None
    /\ LET S == vals[7][1]
           P == vals[8][1]
           N == vals[9][1]
           A == vals[10][1]
       IN  /\ P # 0 /\ P % 4 = 0
           /\ 0 < A /\ A < N
           /\ S % P = 0

\* write_word_ok taking Ack and AckPageFull alike at every offset
write_word_ok_any_ack(w, out) ==
    /\ out.kind = "resp" /\ out.echo
    /\ out.response \in {"RespAck", "RespAckPageFull"}

\* Device::flash, PageBufferWriteWord of word offset w: Ack while the buffer
\* has room, AckPageFull on the last word of the page, nothing else
write_word_ok(w, out) ==
    /\ out.kind = "resp" /\ out.echo
    /\ out.response = (IF w = WordsPerPage - 1 THEN "RespAckPageFull" ELSE "RespAck")

\* calc_crc_verdict retrying on every ErrCRCInvld
calc_crc_verdict_always_retry(tries, out) ==
    IF out.kind = "resp" /\ out.echo /\ out.response = "RespAck" THEN "ok"
    ELSE IF out.kind = "resp" /\ out.echo /\ out.response = "RespErrCRCInvld"
    THEN "retry"
    ELSE "fatal"

\* Device::flash, PageBufferCalcCRC after `tries` failed attempts at the page:
\* "ok", "retry" (first ErrCRCInvld: clear and rewrite the page) or "fatal"
calc_crc_verdict(tries, out) ==
    IF exchange_ok(out) THEN "ok"
    ELSE IF out.kind = "resp" /\ out.echo /\ out.response = "RespErrCRCInvld" /\ tries = 0
    THEN "retry"
    ELSE "fatal"

\* One exchange recorded: the request kind, its payload, the page in
\* programming (0 outside the write phase) and how the exchange ended
Exchange(req, arg, page, out) == [req |-> req, arg |-> arg, page |-> page, out |-> out]

\* Failed without the panic: the flow goes on after the error
Failed_goes_on(exch) ==
    /\ session' = "Failed"
    /\ log' = IF exch = None THEN log ELSE Append(log, exch[1])
    /\ UNCHANGED <<pc, dev>>

\* The error surfaces: the Result is unwrapped in main.rs, which panics
Failed(exch) ==
    /\ session' = "Failed"
    /\ pc' = "panic"
    /\ log' = IF exch = None THEN log ELSE Append(log, exch[1])
    /\ UNCHANGED dev

(***************************************************************************)
(* main.rs: flash_device and connect_device                                *)
(***************************************************************************)
\* The CLI subcommands: search_for_devices, erase_device, flash_device
Flows == {"search", "erase", "flash"}

\* The nodes a scan of the network can find
ScanResults == {<<>>, <<3>>, <<20, 1>>}

\* Device::new and the locals of flash_device
DeviceNew(is_network, node) ==
    [is_network |-> is_network,
     node |-> IF is_network THEN Some(node) ELSE None,
     mode |-> Broadcast, flow |-> "flash", scanned |-> None, done |-> <<>>,
     at |-> 0, connected |-> <<>>,
     idx |-> 1, vals |-> [i \in 1..Len(Registry) |-> None], timeouts |-> 0,
     image |-> <<>>, k |-> 0, p |-> 0, step |-> "clear", w |-> 0,
     tries |-> 0, v |-> 1]

\* ScanNetwork with the loop starting at the last node of the list
ScanNetwork_last_only ==
    /\ pc = "scan"
    /\ \/ \E node_lst \in ScanResults :
            IF node_lst = <<>>
            THEN /\ dev' = [dev EXCEPT !.scanned = Some(node_lst)]
                 /\ pc' = "done"
                 /\ UNCHANGED <<session, log>>
            ELSE /\ dev' = [dev EXCEPT !.scanned = Some(node_lst), !.at = Len(node_lst),
                                       !.node = Some(node_lst[Len(node_lst)])]
                 /\ pc' = "create"
                 /\ UNCHANGED <<session, log>>
       \/ Failed(None)
    /\ UNCHANGED <<entryVars, simVars, codecVars>>

\* search_for_devices on a network transport: create, open and scan_network
\* on an interface of their own, each unwrapped; then the loop over node_lst
\* starts with its first node, or ends at once on an empty list
ScanNetwork ==
    /\ pc = "scan"
    /\ \/ \E node_lst \in ScanResults :
            IF node_lst = <<>>
            THEN /\ dev' = [dev EXCEPT !.scanned = Some(node_lst)]
                 /\ pc' = "done"
                 /\ UNCHANGED <<session, log>>
            ELSE /\ dev' = [dev EXCEPT !.scanned = Some(node_lst), !.at = 1,
                                       !.node = Some(node_lst[1])]
                 /\ pc' = "create"
                 /\ UNCHANGED <<session, log>>
       \/ Failed(None)
    /\ UNCHANGED <<entryVars, simVars, codecVars>>

\* Where each flow goes on when connect_device returned Ok(device): search
\* prints the device, erase calls device.erase(), flash loads the hex file
after_connect(flow) ==
    CASE flow = "search" -> "print"
      [] flow = "erase"  -> "erase"
      [] flow = "flash"  -> "hex"

\* I::create()?
Create ==
    /\ pc = "create"
    /\ \E ok \in BOOLEAN :
        IF ok
        THEN /\ pc' = "open"
             /\ dev' = [dev EXCEPT !.done = Append(@, "create")]
             /\ UNCHANGED <<session, log>>
        ELSE Failed(None)
    /\ UNCHANGED <<entryVars, simVars, codecVars>>

\* Open going on to Device::new whether or not a node id is given
Open_skip_set_mode ==
    /\ pc = "open"
    /\ \E ok \in BOOLEAN :
        IF ok
        THEN /\ pc' = "init"
             /\ dev' = [dev EXCEPT !.done = Append(@, "open")]
             /\ UNCHANGED <<session, log>>
        ELSE Failed(None)
    /\ UNCHANGED <<entryVars, simVars, codecVars>>

\* interface.open(conn_params)?, then the test node_id.is_some()
Open ==
    /\ pc = "open"
    /\ \E ok \in BOOLEAN :
        IF ok
        THEN /\ pc' = IF dev.node # None THEN "set_mode" ELSE "init"
             /\ dev' = [dev EXCEPT !.done = Append(@, "open")]
             /\ UNCHANGED <<session, log>>
        ELSE Failed(None)
    /\ UNCHANGED <<entryVars, simVars, codecVars>>

\* SetMode without the ?: the error of set_mode is dropped
SetMode_goes_on_error ==
    /\ pc = "set_mode"
    /\ \E ok \in BOOLEAN :
        IF ok
        THEN /\ pc' = "init"
             /\ dev' = [dev EXCEPT !.mode = Specific(dev.node[1]),
                                   !.done = Append(@, "set_mode")]
             /\ UNCHANGED <<session, log>>
        ELSE /\ pc' = "init"
             /\ UNCHANGED <<session, dev, log>>
    /\ UNCHANGED <<entryVars, simVars, codecVars>>

\* interface.set_mode(ComMode::Specific(node_id))?, then Device::new
SetMode ==
    /\ pc = "set_mode"
    /\ \E ok \in BOOLEAN :
        IF ok
        THEN /\ pc' = "init"
             /\ dev' = [dev EXCEPT !.mode = Specific(dev.node[1]),
                                   !.done = Append(@, "set_mode")]
             /\ UNCHANGED <<session, log>>
        ELSE Failed(None)
    /\ UNCHANGED <<entryVars, simVars, codecVars>>

\* device.init()?: reads the next entry of the registry; after the last one
\* the geometry is checked and the device is ready
InitRead ==
    /\ pc = "init"
    /\ \E out \in ReadOutcomes(Registry[dev.idx]) :
        LET i == dev.idx
            exch == Exchange(Registry[i], 0, 0, out)
            verdict == init_read_verdict(out)
            vals == [dev.vals EXCEPT ![i] =
                        IF verdict = "known"
                        THEN Some(device_word(Registry[i], out.good)) ELSE None]
        IN  /\ out.kind = "timeout" => dev.timeouts < MaxInitTimeouts
            /\ IF verdict = "fatal" \/ (i = Len(Registry) /\ ~init_consistent(vals))
               THEN Failed(Some(exch))
               ELSE /\ log' = Append(log, exch)
                    /\ dev' = [dev EXCEPT !.vals = vals, !.idx = i + 1,
                                          !.timeouts = IF out.kind = "timeout"
                                                       THEN @ + 1 ELSE @,
                                          !.done = IF i = Len(Registry)
                                                   THEN Append(@, "init") ELSE @]
                    /\ IF i = Len(Registry)
                       THEN session' = "Ready" /\ pc' = after_connect(dev.flow)
                       ELSE UNCHANGED <<session, pc>>
    /\ UNCHANGED <<entryVars, simVars, codecVars>>

\* search_for_devices: println!("Device found..") for the device connected,
\* which is dropped with its interface; on a network transport the loop goes
\* on with connect_device(Some(node)) for the next node of node_lst, on a
\* fresh interface and a fresh Device
PrintDevice ==
    /\ pc = "print"
    /\ LET found == Append(dev.connected,
                            [node |-> dev.node, mode |-> dev.mode, done |-> dev.done]) IN
       IF dev.scanned # None /\ dev.at < Len(dev.scanned[1])
       THEN /\ dev' = [DeviceNew(dev.is_network, dev.scanned[1][dev.at + 1]) EXCEPT
                          !.flow = dev.flow, !.scanned = dev.scanned,
                          !.at = dev.at + 1, !.connected = found]
            /\ session' = "Init"
            /\ log' = <<>>
            /\ pc' = "create"
       ELSE /\ dev' = [dev EXCEPT !.connected = found]
            /\ pc' = "done"
            /\ UNCHANGED <<session, log>>
    /\ UNCHANGED <<entryVars, simVars, codecVars>>

\* HexFile::from_file(path).unwrap(), then device.flash(&hex_file) starts by
\* erasing from the app page index
LoadHex ==
    /\ pc = "hex"
    /\ \/ \E image \in Images :
            /\ dev' = [dev EXCEPT !.image = image, !.k = FlashAppPageIdx]
            /\ session' = "Erasing"
            /\ pc' = "flash"
            /\ UNCHANGED log
       \/ Failed(None)
    /\ UNCHANGED <<entryVars, simVars, codecVars>>

\* device.erase() starting at page 0
Erase_whole_flash ==
    /\ pc = "erase" /\ session = "Ready"
    /\ dev' = [dev EXCEPT !.k = 0]
    /\ session' = "Erasing"
    /\ UNCHANGED <<pc, log>>
    /\ UNCHANGED <<entryVars, simVars, codecVars>>

\* device.erase().unwrap(): erasing starts at the app page index
Erase ==
    /\ pc = "erase" /\ session = "Ready"
    /\ dev' = [dev EXCEPT !.k = FlashAppPageIdx]
    /\ session' = "Erasing"
    /\ UNCHANGED <<pc, log>>
    /\ UNCHANGED <<entryVars, simVars, codecVars>>

\* Device::erase and Device::flash, erasing: ErasePage with payload k, for k
\* from A up to N; erase_device ends there, flash_device goes on to write
ErasePage ==
    /\ pc \in {"erase", "flash"} /\ session = "Erasing"
    /\ \E out \in Outcomes :
        LET exch == Exchange("ReqFlashWriteErasePage", dev.k, 0, out) IN
        IF exchange_ok(out)
        THEN /\ log' = Append(log, exch)
             /\ IF dev.k + 1 < FlashNumPages
                THEN /\ dev' = [dev EXCEPT !.k = @ + 1]
                     /\ UNCHANGED <<session, pc>>
                ELSE IF pc = "erase"
                THEN /\ dev' = [dev EXCEPT !.k = @ + 1]
                     /\ session' = "Erased"
                     /\ pc' = "done"
                ELSE LET p == next_page(dev.image, FlashAppPageIdx) IN
                     /\ dev' = [dev EXCEPT !.k = @ + 1, !.p = p, !.step = "clear",
                                           !.w = 0, !.tries = 0]
                     /\ session' = IF p < FlashNumPages THEN "Writing" ELSE "Verifying"
                     /\ UNCHANGED pc
        ELSE Failed(Some(exch))
    /\ UNCHANGED <<entryVars, simVars, codecVars>>

\* Device::flash, page programming: PageBufferClear
PageBufferClear ==
    /\ pc = "flash" /\ session = "Writing" /\ dev.step = "clear"
    /\ \E out \in Outcomes :
        LET exch == Exchange("ReqPageBufferClear", 0, dev.p, out) IN
        IF exchange_ok(out)
        THEN /\ log' = Append(log, exch)
             /\ dev' = [dev EXCEPT !.step = "word", !.w = 0]
             /\ UNCHANGED <<session, pc>>
        ELSE Failed(Some(exch))
    /\ UNCHANGED <<entryVars, simVars, codecVars>>

\* Device::flash, page programming: PageBufferWriteWord of the next word
PageBufferWriteWord ==
    /\ pc = "flash" /\ session = "Writing" /\ dev.step = "word"
    /\ \E out \in Outcomes :
        LET exch == Exchange("ReqPageBufferWriteWord",
                             page_words(dev.image, dev.p)[dev.w + 1], dev.p, out)
        IN  IF write_word_ok(dev.w, out)
            THEN /\ log' = Append(log, exch)
                 /\ dev' = [dev EXCEPT !.w = @ + 1,
                               !.step = IF dev.w + 1 = WordsPerPage THEN "crc" ELSE "word"]
                 /\ UNCHANGED <<session, pc>>
            ELSE Failed(Some(exch))
    /\ UNCHANGED <<entryVars, simVars, codecVars>>

\* Device::flash, page programming: PageBufferCalcCRC with the expected CRC
PageBufferCalcCRC ==
    /\ pc = "flash" /\ session = "Writing" /\ dev.step = "crc"
    /\ \E out \in Outcomes :
        LET exch == Exchange("ReqPageBufferCalcCRC",
                             crc32(page_words(dev.image, dev.p)), dev.p, out)
            verdict == calc_crc_verdict(dev.tries, out)
        IN  IF verdict = "fatal"
            THEN Failed(Some(exch))
            ELSE /\ log' = Append(log, exch)
                 /\ dev' = IF verdict = "ok"
                           THEN [dev EXCEPT !.step = "flash"]
                           ELSE [dev EXCEPT !.step = "clear", !.w = 0, !.tries = @ + 1]
                 /\ UNCHANGED <<session, pc>>
    /\ UNCHANGED <<entryVars, simVars, codecVars>>

\* Device::flash, page programming: PageBufferWriteToFlash with payload p,
\* then the next page of the image or the verification
PageBufferWriteToFlash ==
    /\ pc = "flash" /\ session = "Writing" /\ dev.step = "flash"
    /\ \E out \in Outcomes :
        LET exch == Exchange("ReqPageBufferWriteToFlash", dev.p, dev.p, out) IN
        IF exchange_ok(out)
        THEN LET p == next_page(dev.image, dev.p + 1) IN
             /\ log' = Append(log, exch)
             /\ dev' = [dev EXCEPT !.p = p, !.step = "clear", !.w = 0, !.tries = 0]
             /\ session' = IF p < FlashNumPages THEN "Writing" ELSE "Verifying"
             /\ UNCHANGED pc
        ELSE Failed(Some(exch))
    /\ UNCHANGED <<entryVars, simVars, codecVars>>

\* The CRC of the application area [A, N) as the host computes it
app_crc(image) ==
    crc32([i \in 1..((FlashNumPages - FlashAppPageIdx) * WordsPerPage) |->
              word_at(image, i - 1)])

\* The word a device answers AppCRCCalc / AppCRCStored with: the CRC of the
\* application area as the image fills it, or the CRC of something else
device_crc_word(image, good) == IF good THEN app_crc(image) ELSE crc32(<<>>)

\* app_crc_ok taking every Ack, whatever word it carries
app_crc_ok_any_word(image, out) == exchange_ok(out)

\* Device::flash, AppCRCCalc / AppCRCStored: Ack, and the returned word equals
\* the CRC the host computed
app_crc_ok(image, out) ==
    exchange_ok(out) /\ device_crc_word(image, out.good) = app_crc(image)

\* Device::flash, verifying: WriteAppCRC, AppCRCCalc, AppCRCStored
VerifyRequests == <<"ReqFlashWriteAppCRC", "ReqAppInfoCRCCalc", "ReqAppInfoCRCStrd">>

Verify ==
    /\ pc = "flash" /\ session = "Verifying"
    /\ \E out \in (IF dev.v = 1 THEN Outcomes ELSE ReadOutcomes(VerifyRequests[dev.v])) :
        LET req == VerifyRequests[dev.v]
            exch == Exchange(req, IF dev.v = 1 THEN app_crc(dev.image) ELSE 0, 0, out)
            ok == IF dev.v = 1 THEN exchange_ok(out) ELSE app_crc_ok(dev.image, out)
        IN  IF ok
            THEN /\ log' = Append(log, exch)
                 /\ dev' = [dev EXCEPT !.v = @ + 1]
                 /\ IF dev.v = Len(VerifyRequests)
                    THEN session' = "Done" /\ pc' = "done"
                    ELSE UNCHANGED <<session, pc>>
            ELSE Failed(Some(exch))
    /\ UNCHANGED <<entryVars, simVars, codecVars>>

(***************************************************************************)
(* msg.rs: the conversions applied to one input                            *)
(***************************************************************************)
\* The values of a u16 and of a u8
U16 == 0..65535
U8 == 0..255

\* No kind: the input is a code, or nothing was returned yet
NoKind == ""

\* The input of a conversion: a kind to encode (code 0 until encoded), or a
\* code taken off the wire to decode
CodecNew(r, code) == [op |-> "new", r |-> r, code |-> code, ret |-> NoKind]
CodecInputs ==
    {CodecNew(r, 0) : r \in RequestType \cup ResponseType}
    \cup {CodecNew(NoKind, c) : c \in U16}

\* RequestType::to_u16 on a request kind
RequestToU16 ==
    /\ codec.op = "new" /\ codec.r \in RequestType
    /\ codec' = [codec EXCEPT !.op = "to_u16", !.code = to_u16(codec.r)]
    /\ UNCHANGED <<entryVars, simVars, flashVars>>

\* RequestType::from_u16 on the code to_u16 returned, or on a code off the
\* wire
RequestFromU16 ==
    /\ \/ codec.op = "to_u16"
       \/ codec.op = "new" /\ codec.r = NoKind
    /\ codec' = [codec EXCEPT !.op = "from_u16", !.ret = from_u16(codec.code)]
    /\ UNCHANGED <<entryVars, simVars, flashVars>>

\* ResponseType::to_u8 on a response kind
ResponseToU8 ==
    /\ codec.op = "new" /\ codec.r \in ResponseType
    /\ codec' = [codec EXCEPT !.op = "to_u8", !.code = to_u8(codec.r)]
    /\ UNCHANGED <<entryVars, simVars, flashVars>>

\* ResponseType::from_u8 on the code to_u8 returned, or on a byte off the
\* wire
ResponseFromU8 ==
    /\ \/ codec.op = "to_u8"
       \/ codec.op = "new" /\ codec.r = NoKind /\ codec.code \in U8
    /\ codec' = [codec EXCEPT !.op = "from_u8", !.ret = from_u8(codec.code)]
    /\ UNCHANGED <<entryVars, simVars, flashVars>>

(***************************************************************************)
(* Initial states and specifications                                       *)
(***************************************************************************)
\* DeviceEntry::new(name, request_type)
EntryInit ==
    /\ \E rt \in EntryRequests : entry = DeviceEntryNew(EntryName(rt), rt)
    /\ result = Ok(FALSE)
    /\ call = [made |-> FALSE, last |-> <<>>, wire |-> <<>>,
               created |-> entry, updated |-> None]

\* The bus of a fresh process, before create_sim_devices
SimInit ==
    /\ nodes = sim_reset.nodes
    /\ bcast = sim_reset.bcast
    /\ pending = sim_reset.pending
    /\ mode = Broadcast
    /\ simres = Ok(TRUE)
    /\ simcall = [op |-> "none"]
    /\ panicked = FALSE

\* A subcommand entered. erase_device and flash_device: node_id is Some(node)
\* on a network transport; search_for_devices: the node ids come from the
\* scan on a network transport, and node_id is None otherwise
FlashInit ==
    /\ session = "Init"
    /\ \E is_network \in BOOLEAN, flow \in Flows :
        /\ dev = [DeviceNew(is_network, 3) EXCEPT
                     !.flow = flow,
                     !.node = IF flow = "search" THEN None ELSE @]
        /\ pc = IF flow = "search" /\ is_network THEN "scan" ELSE "create"
    /\ log = <<>>

\* A kind to encode or a code to decode
CodecInit == codec \in CodecInputs

\* The parts a specification does not run stay as constructed
CodecIdle == codec = CodecNew("ReqPing", 0)

EntryIdle ==
    /\ entry = DeviceEntryNew(EntryName("ReqDevInfoVID"), "ReqDevInfoVID")
    /\ result = Ok(FALSE)
    /\ call = [made |-> FALSE, last |-> <<>>, wire |-> <<>>,
               created |-> entry, updated |-> None]

FlashIdle ==
    /\ pc = "create"
    /\ session = "Init"
    /\ dev = DeviceNew(FALSE, 3)
    /\ log = <<>>

InitEntry == EntryInit /\ SimInit /\ FlashIdle /\ CodecIdle
InitSim == EntryIdle /\ SimInit /\ FlashIdle /\ CodecIdle
InitFlash == EntryIdle /\ SimInit /\ FlashInit /\ CodecIdle
InitCodec == EntryIdle /\ SimInit /\ FlashIdle /\ CodecInit

NextEntry == ReadFromDevice
NextSim == ConfigNodes \/ PingNetwork \/ SimOpen \/ SimSetMode \/ SimSend \/ SimRecv
NextFlash ==
    \/ ScanNetwork \/ Create \/ Open \/ SetMode \/ InitRead \/ PrintDevice \/ LoadHex
    \/ Erase \/ ErasePage
    \/ PageBufferClear \/ PageBufferWriteWord \/ PageBufferCalcCRC
    \/ PageBufferWriteToFlash \/ Verify

NextCodec == RequestToU16 \/ RequestFromU16 \/ ResponseToU8 \/ ResponseFromU8

SpecEntry == InitEntry /\ [][NextEntry]_vars
SpecSim == InitSim /\ [][NextSim]_vars
SpecFlash == InitFlash /\ [][NextFlash]_vars
SpecCodec == InitCodec /\ [][NextCodec]_vars

(***************************************************************************)
(* Properties of DeviceEntry::read_from_device (checked under SpecEntry)   *)
(***************************************************************************)
\* The last call sent its request and recv returned r
LastRecv(r) == call.made /\ call.send.ok /\ call.recv = Some(r)

\* The last call sent its request and recv returned a response message
LastRecvIsMsg ==
    /\ call.made /\ call.send.ok
    /\ call.recv[1].ok
    /\ call.recv[1].val # None

LastMsg == call.recv[1].val[1]

LastMsgValid ==
    LastMsg.request = entry.request_type /\ LastMsg.response = "RespAck"

\* C1: whenever the last read_from_device call sent its request and the
\* receive timed out, the call returned Ok(false) and the entry's value is
\* None, whatever the entry held before.
C1_TimeoutClearsValue ==
    LastRecv(Ok(None)) => result = Ok(FALSE) /\ entry.value = None

\* C2: whenever the last call received a response that echoes the entry's
\* request kind with Ack, it returned Ok(true) and the entry's value is the
\* payload word of that response (0x01020304 for the bytes 04 03 02 01),
\* whatever the entry held before.
C2_AckStoresPayloadWord ==
    (LastRecvIsMsg /\ LastMsgValid) =>
        /\ result = Ok(TRUE)
        /\ entry.value = Some(to_word(LastMsg.data))
        /\ LastMsg.data = <<4, 3, 2, 1>> => entry.value = Some(U32(258, 772))

\* C2 witness: a value stored by an earlier read was overwritten by another
C2_Witness ==
    /\ LastRecvIsMsg /\ LastMsgValid
    /\ call.old_value # None
    /\ entry.value # call.old_value
    /\ result = Ok(TRUE)

\* C3: whenever the last call received a response whose request kind differs
\* from the one sent or whose response kind is not Ack, the entry's value is
\* None and the call returned the message error naming the request sent and
\* the request and response kinds received.
C3_MismatchClearsAndReports ==
    (LastRecvIsMsg /\ ~LastMsgValid) =>
        /\ entry.value = None
        /\ result = Err(ComErrorMsgError(entry.name, entry.request_type,
                                         LastMsg.request, LastMsg.response))

\* C3 witness: an entry holding a value got AckPageFull for its own request
C3_Witness ==
    /\ LastRecvIsMsg
    /\ LastMsg.request = entry.request_type
    /\ LastMsg.response = "RespAckPageFull"
    /\ call.old_value # None
    /\ entry.value = None
    /\ ~result.ok /\ result.err.kind = "MsgError"

\* C4: whenever send or recv failed with a transport error in the last call,
\* the call returned that same error and the entry's value is what it was
\* before the call.
C4_TransportErrorPropagates ==
    /\ (call.made /\ ~call.send.ok) =>
            result = Err(call.send.err) /\ entry.value = call.old_value
    /\ (call.made /\ call.send.ok /\ ~call.recv[1].ok) =>
            result = Err(call.recv[1].err) /\ entry.value = call.old_value

\* C4 witness: recv failed on an entry that held a value, and it still does
C4_Witness ==
    /\ call.made /\ call.send.ok /\ ~call.recv[1].ok
    /\ call.old_value # None
    /\ entry.value = call.old_value
    /\ result = Err(ComErrorError("Recv error"))

\* C13: on the transport of an entry, a receive is attempted only right after
\* a send that returned Ok; a send that returned Ok is followed by its receive,
\* which completes (response, timeout or error) before anything else is sent;
\* and after a send that failed no receive is attempted: what follows, if
\* anything, is the next send.
C13_HalfDuplex ==
    call.made =>
        LET w == call.wire IN
        \A i \in 1..Len(w) :
            /\ w[i].op = "recv" =>
                  i > 1 /\ w[i - 1].op = "send" /\ w[i - 1].end = "ok"
            /\ (w[i].op = "send" /\ w[i].end = "ok") =>
                  /\ i < Len(w)
                  /\ w[i + 1].op = "recv"
                  /\ w[i + 1].end \in {"response", "timeout", "error"}
            /\ (w[i].op = "send" /\ w[i].end = "error") =>
                  i = Len(w) \/ w[i + 1].op = "send"

\* C13 witness: a read whose send failed, then a read that timed out
C13_Witness ==
    /\ call.made
    /\ call.wire = << [op |-> "send", end |-> "error"],
                      [op |-> "send", end |-> "ok"],
                      [op |-> "recv", end |-> "timeout"] >>

\* C23: whenever the last call received a response that echoes the entry's
\* request kind with Ack, it returned Ok(true) and stored the payload word,
\* whether the response carries the packet id of the request, 0, or another
\* packet id: the same response under any other packet id gives the same
\* entry and the same return value.
C23_PacketIdNotFatal ==
    (LastRecvIsMsg /\ LastMsgValid) =>
        /\ result = Ok(TRUE)
        /\ entry.value = Some(to_word(LastMsg.data))
        /\ \A id \in RxPacketIds :
              read_from_device([entry EXCEPT !.value = call.old_value], call.send,
                               Ok(Some([LastMsg EXCEPT !.packet_id = id])))
                 = [entry |-> entry, ret |-> result]

\* C23 witness: a response with a packet id other than the request's, echoing
\* the request kind with Ack, was read as 'updated'
C23_Witness ==
    /\ LastRecvIsMsg /\ LastMsgValid
    /\ LastMsg.packet_id # new_std_request(entry.request_type).packet_id
    /\ LastMsg.packet_id # 0
    /\ result = Ok(TRUE)

\* C25: in every state of a DeviceEntry, after any calls of read_from_device
\* with any outcomes, the name and the request kind are those it was created
\* with; it was created with no value; the value is None as long as no call
\* has returned Ok(true); and a value Some(w) is the payload word of the
\* latest call that returned Ok(true).
C25_EntryInvariants ==
    /\ entry.name = call.created.name
    /\ entry.request_type = call.created.request_type
    /\ call.created.value = None
    /\ call.updated = None => entry.value = None
    /\ entry.value # None => entry.value = call.updated

\* C25 witness: the entry holds the word of an earlier read after a call that
\* did not return Ok(true)
C25_Witness ==
    /\ call.made /\ result # Ok(TRUE)
    /\ entry.value # None
    /\ entry.value = call.updated

(***************************************************************************)
(* Properties of the simulated bus (checked under SpecSim)                 *)
(***************************************************************************)
\* The frame the last recv took from the bus, or the frames the last scan
\* was answered with, held a request or response code that is not defined
LastFrameMalformed ==
    \/ /\ simcall.op = "recv"
       /\ simcall.got # None
       /\ decode_panics(simcall.got[1])
    \/ /\ simcall.op = "ping_network"
       /\ \E i \in 1..Len(simcall.sent) : decode_panics(simcall.sent[i][2])

\* C5: no received frame makes the program panic, and a frame with an
\* undefined request or response code makes recv or the scan return a
\* protocol decode error.
C5_MalformedFrameIsDecodeError ==
    /\ ~panicked
    /\ LastFrameMalformed => ~simres.ok /\ simres.err.kind = "ProtocolDecodeError"

IsStrictlyAscending(q) == \A i \in 1..(Len(q) - 1) : q[i] < q[i + 1]

NoDuplicates(q) == \A i, j \in 1..Len(q) : q[i] = q[j] => i = j

\* q keeps the order of r: r with some elements left out
RECURSIVE IsSubSeq(_, _)
IsSubSeq(q, r) ==
    IF q = <<>> THEN TRUE
    ELSE IF r = <<>> THEN FALSE
    ELSE IF Head(q) = Head(r) THEN IsSubSeq(Tail(q), Tail(r))
    ELSE IsSubSeq(q, Tail(r))

ScanReturned == simcall.op = "ping_network" /\ ~panicked

AllAckedPing ==
    /\ Len(simcall.sent) = Len(nodes)
    /\ \A i \in 1..Len(simcall.sent) : simcall.sent[i][2] = PingAckFrame

\* C7: config_nodes(L) that succeeds leaves exactly L on the bus, and a scan
\* of a bus whose nodes all acknowledge the Ping returns the list of the nodes
\* on the bus, each once and in the order they were configured.
C7_PingReturnsConfiguredList ==
    /\ (simcall.op = "config_nodes" /\ simres.ok) =>
            nodes = simcall.node_lst /\ NoDuplicates(nodes)
    /\ (ScanReturned /\ AllAckedPing) => simres = Ok(nodes)

\* C7 witness: the nodes 20 and 3, configured in that order, were both found
C7_Witness ==
    /\ ScanReturned /\ AllAckedPing
    /\ nodes = <<20, 3>>
    /\ simres = Ok(<<20, 3>>)

\* The i-th response of the last scan echoes Ping with Ack
AckedPing(i) ==
    LET response_msg == from_raw_data_array(simcall.sent[i][2]) IN
    response_msg.request = "ReqPing" /\ response_msg.response = "RespAck"

\* C22: a scan that returns reports a node id only if the broadcast response
\* of that node echoes Ping with Ack, and reports every such node: a response
\* with another request kind or another response kind leaves its node out
\* and the responders after it are still collected.
C22_PingReportsOnlyPingAck ==
    ScanReturned =>
        /\ simres.ok
        /\ \A n \in Range(simres.val) :
              \E i \in 1..Len(simcall.sent) : simcall.sent[i][1] = n /\ AckedPing(i)
        /\ \A i \in 1..Len(simcall.sent) :
              simcall.sent[i][1] \in Range(simres.val) <=> AckedPing(i)

\* C22 witness: the first node answered the Ping with an error or with the
\* Ack of another request, the second with Ack, and the scan returned the
\* second node alone
C22_Witness ==
    /\ ScanReturned
    /\ Len(simcall.sent) = 2
    /\ simcall.sent[1][2] \in {PingErrFrame, OtherAckFrame}
    /\ simcall.sent[2][2] = PingAckFrame
    /\ simres = Ok(<<simcall.sent[2][1]>>)

\* The node ids of the responses the last scan's broadcast put on the bus
Responders == [i \in 1..Len(simcall.sent) |-> simcall.sent[i][1]]

\* C24: a scan can be run on every bus and ends; when it returns, its one
\* broadcast Ping had put exactly one response per configured node on the
\* bus, the scan took every one of them and left at the first absent
\* response, so the bus holds no broadcast response, and it reports no more
\* ids than there are nodes.
C24_OnePingThenDrained ==
    /\ ~panicked => ENABLED PingNetwork
    /\ ScanReturned =>
          /\ Responders = nodes
          /\ bcast = <<>>
          /\ simres.ok /\ Len(simres.val) <= Len(nodes)

\* C24 witness: a scan of two nodes, one of which did not acknowledge the
\* Ping, returned with the bus drained
C24_Witness ==
    /\ ScanReturned
    /\ Len(nodes) = 2 /\ Len(simcall.sent) = 2
    /\ \E i \in 1..2 : ~AckedPing(i)
    /\ bcast = <<>>

\* The bus a config_nodes(node_lst) leaves when called on a bus just reset
ConfiguredAlone(node_lst) ==
    [nodes |-> config_nodes_loop(sim_reset.nodes, node_lst).nodes,
     bcast |-> sim_reset.bcast, pending |-> sim_reset.pending]

\* C26: after config_nodes(L) the bus is the one config_nodes(L) leaves on a
\* bus just reset, whatever nodes and pending responses it found, so that an
\* earlier config_nodes leaves no trace: no response is pending; when the
\* call succeeds the nodes on the bus are exactly L; when adding a node
\* fails the call returns an error and the bus holds the nodes of L before
\* the failing one and none that follow it.
C26_ConfigNodesResets ==
    simcall.op = "config_nodes" =>
        LET L == simcall.node_lst IN
        /\ [nodes |-> nodes, bcast |-> bcast, pending |-> pending] = ConfiguredAlone(L)
        /\ bcast = <<>> /\ \A n \in NodeIds : pending[n] = None
        /\ simres.ok => nodes = L
        /\ ~simres.ok =>
              /\ simres = Err(ErrorError("add_device"))
              /\ Len(nodes) < Len(L)
              /\ nodes = SubSeq(L, 1, Len(nodes))
              /\ L[Len(nodes) + 1] \in Range(nodes)

\* C26 witness: config_nodes succeeded on a bus that held other nodes and a
\* pending response
C26_Witness ==
    /\ simcall.op = "config_nodes" /\ simres.ok
    /\ simcall.had.nodes # <<>>
    /\ \E n \in NodeIds : simcall.had.pending[n] # None
    /\ Range(simcall.had.nodes) \cap Range(simcall.node_lst) = {}
    /\ nodes = simcall.node_lst /\ nodes # <<>>

\* The failing case happens: the second node of the list was refused
C26_FailureReached ==
    simcall.op = "config_nodes" /\ ~simres.ok /\ Len(nodes) = 1

\* The last operation was a recv in mode Specific(n)
RecvSpecific == simcall.op = "recv" /\ simcall.mode.kind = "Specific"

\* C15: a recv in mode Specific(n) takes the pending response of node n off
\* the bus and returns it decoded when there is one (a frame with an undefined
\* code apart, which makes the decoder panic), and returns the error
\* ComNoResponse when there is none; ComNoResponse is returned in no other
\* case, and the generic error is returned by recv only in a mode other than
\* Specific, never for a response that is merely absent.
C15_RecvNoResponseIsDistinct ==
    /\ RecvSpecific =>
          /\ pending[simcall.mode.node] = None
          /\ simcall.got = None => simres = Err(ErrorComNoResponse)
          /\ (simcall.got # None /\ ~decode_panics(simcall.got[1])) =>
                simres = Ok(from_raw_data_array(simcall.got[1]))
    /\ (~simres.ok /\ simres.err.kind = "ComNoResponse") =>
          RecvSpecific /\ simcall.got = None
    /\ (simcall.op = "recv" /\ ~simres.ok /\ simres.err.kind = "Error") =>
          simcall.mode.kind # "Specific"

\* C15 witness: node 3 is on the bus and stayed silent; recv in mode
\* Specific(3) returned ComNoResponse
C15_Witness ==
    /\ RecvSpecific
    /\ simcall.mode = Specific(3) /\ 3 \in Range(nodes)
    /\ simcall.got = None
    /\ simres = Err(ErrorComNoResponse)

\* C16: a send that returned Ok handed exactly one frame to the bus, for the
\* addressee of the current mode: node n in mode Specific(n), all nodes in
\* mode Broadcast.
C16_SendTransmitsOneFrame ==
    (simcall.op = "send" /\ simres.ok) =>
        /\ Len(simcall.wire) = 1
        /\ simcall.wire[1].to = simcall.mode
        /\ simcall.wire[1].raw = simcall.raw

(***************************************************************************)
(* Properties of the flash session (checked under SpecFlash)               *)
(***************************************************************************)
\* The step made an exchange; Exchanged' is the exchange it made
MadeExchange == Len(log') = Len(log) + 1
Exchanged == log[Len(log)]

IsAck(e, kind) == e.out.kind = "resp" /\ e.out.echo /\ e.out.response = kind

\* Ack and AckPageFull are the positive acknowledgements
PositiveAck(e) == IsAck(e, "RespAck") \/ IsAck(e, "RespAckPageFull")

\* A response that is no positive acknowledgement, or a transport error
NonAckOrError(e) ==
    \/ e.out.kind = "error"
    \/ e.out.kind = "resp" /\ ~PositiveAck(e)

\* Once Failed, the session stays Failed and nothing more is sent
FailedIsSink == session = "Failed" => session' = "Failed" /\ log' = log

\* The step stays with one Device: the search flow did not go on to the
\* Device of the next node, whose session starts at Init
SameDevice == dev'.at = dev.at

ToleratedInInit(e) == session = "Init" /\ e.out = Timeout
RetriedCRC(e) ==
    /\ e.req = "ReqPageBufferCalcCRC"
    /\ IsAck(e, "RespErrCRCInvld")
    /\ ~\E i \in 1..Len(log) :
          /\ log[i].req = "ReqPageBufferCalcCRC" /\ log[i].page = e.page
          /\ IsAck(log[i], "RespErrCRCInvld")

IsPageWrite(i, p) ==
    \A w \in 0..(WordsPerPage - 1) :
        /\ log[i + w].req = "ReqPageBufferWriteWord"
        /\ log[i + w].page = p
        /\ log[i + w].arg = page_words(dev.image, p)[w + 1]
        /\ IsAck(log[i + w], IF w = WordsPerPage - 1 THEN "RespAckPageFull" ELSE "RespAck")

\* The offset of the word written by exchange i: the writes since the Clear
WordOffset(i) ==
    Cardinality({j \in 1..(i - 1) :
        /\ log[j].req = "ReqPageBufferWriteWord"
        /\ \A k \in j..i : log[k].req # "ReqPageBufferClear"})

\* C9: every PageBufferCalcCRC follows a PageBufferClear and exactly P/4
\* PageBufferWriteWord requests carrying the page's words in ascending offset
\* order, of which exactly the last was answered AckPageFull; and a write
\* answered otherwise (AckPageFull or ErrPageFull before the last word, plain
\* Ack on the last) is the session's last exchange: it failed there.
C9_PageTransaction ==
    /\ \A i \in 1..Len(log) :
          log[i].req = "ReqPageBufferCalcCRC" =>
              /\ i > WordsPerPage + 1
              /\ log[i - WordsPerPage - 1].req = "ReqPageBufferClear"
              /\ log[i - WordsPerPage - 1].page = log[i].page
              /\ IsPageWrite(i - WordsPerPage, log[i].page)
    /\ \A i \in 1..Len(log) :
          log[i].req = "ReqPageBufferWriteWord" =>
              LET offset == WordOffset(i) IN
              /\ offset < WordsPerPage
              /\ \/ IsAck(log[i], IF offset = WordsPerPage - 1
                                  THEN "RespAckPageFull" ELSE "RespAck")
                 \/ i = Len(log) /\ session = "Failed"

\* C9 witness: a session that programmed two pages and finished
C9_Witness ==
    /\ session = "Done"
    /\ Cardinality({i \in 1..Len(log) : log[i].req = "ReqPageBufferCalcCRC"}) >= 2

\* The answers ErrCRCInvld to the CalcCRC of page p
CrcFailures(p) ==
    {i \in 1..Len(log) :
        /\ log[i].req = "ReqPageBufferCalcCRC" /\ log[i].page = p
        /\ IsAck(log[i], "RespErrCRCInvld")}

\* C10: a page's CalcCRC is answered ErrCRCInvld at most twice and the second
\* time the session fails there; after the first, the next request is the
\* PageBufferClear of the same page; and every PageBufferWriteToFlash comes
\* right after a CalcCRC of the same page that was answered Ack.
C10_CrcRetryOnce ==
    /\ \A p \in FlashAppPageIdx..(FlashNumPages - 1) :
          /\ Cardinality(CrcFailures(p)) <= 2
          /\ Cardinality(CrcFailures(p)) = 2 =>
                session = "Failed" /\ Len(log) \in CrcFailures(p)
    /\ \A i \in 1..(Len(log) - 1) :
          (log[i].req = "ReqPageBufferCalcCRC" /\ ~IsAck(log[i], "RespAck")) =>
              /\ IsAck(log[i], "RespErrCRCInvld")
              /\ log[i + 1].req = "ReqPageBufferClear"
              /\ log[i + 1].page = log[i].page
    /\ \A i \in 1..Len(log) :
          log[i].req = "ReqPageBufferWriteToFlash" =>
              /\ i > 1
              /\ log[i - 1].req = "ReqPageBufferCalcCRC"
              /\ log[i - 1].page = log[i].page
              /\ IsAck(log[i - 1], "RespAck")

\* C10 witness: a page was retried once and the session finished
C10_Witness ==
    /\ session = "Done"
    /\ \E p \in FlashAppPageIdx..(FlashNumPages - 1) : Cardinality(CrcFailures(p)) = 1

\* The reads of the application CRC made while verifying: those that follow
\* the session's WriteAppCRC
CrcReads ==
    {i \in 1..Len(log) :
        /\ log[i].req \in {"ReqAppInfoCRCCalc", "ReqAppInfoCRCStrd"}
        /\ \E j \in 1..(i - 1) : log[j].req = "ReqFlashWriteAppCRC"}

\* The word exchange i was answered with, for a read of the application CRC
AnsweredCrc(i) == device_crc_word(dev.image, log[i].out.good)

\* C11: a session that is Done wrote the host's CRC of the application area
\* with WriteAppCRC and then read AppCRCCalc and AppCRCStored, both answered
\* Ack with a word equal to that CRC; and a verifying read answered with
\* another word is the session's last exchange: the session Failed there.
C11_DoneMeansCrcsEqualHostCrc ==
    /\ session = "Done" =>
          /\ \E j \in 1..Len(log) :
                /\ log[j].req = "ReqFlashWriteAppCRC"
                /\ log[j].arg = app_crc(dev.image)
                /\ IsAck(log[j], "RespAck")
          /\ \A req \in {"ReqAppInfoCRCCalc", "ReqAppInfoCRCStrd"} :
                \E i \in CrcReads :
                    /\ log[i].req = req
                    /\ IsAck(log[i], "RespAck")
                    /\ AnsweredCrc(i) = app_crc(dev.image)
    /\ \A i \in CrcReads :
          (IsAck(log[i], "RespAck") /\ AnsweredCrc(i) # app_crc(dev.image)) =>
              session = "Failed" /\ i = Len(log)

\* C11 witness: the four-word image was flashed and both CRC reads matched
C11_Witness ==
    /\ session = "Done"
    /\ Len(dev.image) = 4
    /\ Cardinality(CrcReads) = 2
    /\ \A i \in CrcReads : AnsweredCrc(i) = app_crc(dev.image)

\* The ErasePage exchanges of the session
EraseIdx == {i \in 1..Len(log) : log[i].req = "ReqFlashWriteErasePage"}

\* C12: the ErasePage requests of a session come right after the reads of
\* init, one after the other, and the j-th of them carries the page index
\* A + j - 1: the pages are erased from A upwards, each once, in ascending
\* order, before any page is programmed, and no page below A or beyond N - 1
\* is erased; an ErasePage that was not answered Ack is the session's last
\* exchange; and a session past the erase phase erased exactly the pages
\* A .. N - 1.
C12_EraseAscendingFromAppPage ==
    /\ \A i \in 1..Len(log) :
          log[i].req = "ReqFlashWriteErasePage" =>
              /\ i > Len(Registry)
              /\ i > Len(Registry) + 1 => log[i - 1].req = "ReqFlashWriteErasePage"
              /\ log[i].arg = FlashAppPageIdx + (i - Len(Registry) - 1)
              /\ log[i].arg >= FlashAppPageIdx /\ log[i].arg < FlashNumPages
              /\ ~IsAck(log[i], "RespAck") => i = Len(log) /\ session = "Failed"
    /\ session \in {"Erased", "Writing", "Verifying", "Done"} =>
          {log[i].arg : i \in EraseIdx} = FlashAppPageIdx..(FlashNumPages - 1)

\* C12 witness: erase_device erased every page of the application area
C12_Witness ==
    /\ dev.flow = "erase" /\ session = "Erased" /\ pc = "done"
    /\ Cardinality(EraseIdx) = FlashNumPages - FlashAppPageIdx
    /\ log[Len(log)].arg = FlashNumPages - 1

\* C14: on a network transport, in the search, the erase and the flash flow
\* alike, every exchange a Device makes (the reads of init, the erasing, the
\* programming, the verifying) is made with the transport in mode Specific(n)
\* for the node n the flow selected, and leaves it so; the mode is Broadcast
\* while the network is scanned.
C14_SpecificModeForDeviceWork ==
    [][ /\ (MadeExchange /\ dev.is_network) =>
              /\ dev.node # None
              /\ dev.mode = Specific(dev.node[1])
              /\ dev'.mode = dev.mode
        /\ pc = "scan" => dev.mode = Broadcast
      ]_vars

\* C14 witness: search found node 20 on the network and read its registry
\* in mode Specific(20)
C14_Witness ==
    /\ dev.flow = "search" /\ dev.is_network
    /\ dev.scanned = Some(<<20, 1>>)
    /\ dev.mode = Specific(20)
    /\ session = "Ready" /\ Len(log) = Len(Registry)

\* The calls of connect_device, in order: set_mode only with a node id
ConnectCalls ==
    IF dev.node # None THEN <<"create", "open", "set_mode", "init">>
    ELSE <<"create", "open", "init">>

IsPrefix(q, r) == Len(q) <= Len(r) /\ \A i \in 1..Len(q) : q[i] = r[i]

\* The requests of erasing, programming and verifying
WriteRequests ==
    { "ReqFlashWriteErasePage", "ReqPageBufferClear", "ReqPageBufferWriteWord",
      "ReqPageBufferCalcCRC", "ReqPageBufferWriteToFlash", "ReqFlashWriteAppCRC" }

\* C20: in the search, the erase and the flash flow, the calls that returned
\* Ok are create, open, set_mode (when a node id is given) and init, in that
\* order; init reads the registry only after the calls before it returned
\* Ok; and an ErasePage, page-buffer or WriteAppCRC request is sent only
\* after all of them returned Ok, init having read the whole registry with
\* no fatal answer: when one of them fails no such request is ever sent.
C20_ConnectBeforeEraseOrFlash ==
    LET wrote == \E i \in 1..Len(log) : log[i].req \in WriteRequests IN
    /\ IsPrefix(dev.done, ConnectCalls)
    /\ Len(log) > 0 =>
          IsPrefix(SubSeq(ConnectCalls, 1, Len(ConnectCalls) - 1), dev.done)
    /\ wrote =>
          /\ dev.done = ConnectCalls
          /\ Len(log) > Len(Registry)
          /\ \A n \in 1..Len(Registry) :
                /\ log[n].req = Registry[n]
                /\ init_read_verdict(log[n].out) # "fatal"
    /\ session \in {"Erasing", "Erased", "Writing", "Verifying", "Done"} =>
          dev.done = ConnectCalls
    /\ dev.done # ConnectCalls => ~wrote

\* C20 witness: erase_device on a network transport made the four calls of
\* connect_device and then erased
C20_Witness ==
    /\ dev.flow = "erase" /\ dev.is_network
    /\ dev.done = <<"create", "open", "set_mode", "init">>
    /\ session = "Erased"
    /\ \E i \in 1..Len(log) : log[i].req = "ReqFlashWriteErasePage"

\* The node ids of the devices the search connected and printed so far
ConnectedNodes == [i \in 1..Len(dev.connected) |-> dev.connected[i].node]

\* C21: search_for_devices scans exactly when the transport is a network:
\* there the scan comes first and once, on an interface no connection uses
\* (every connection starts with a create of its own), and the devices
\* connected are the nodes the scan returned, in the order returned, each
\* created, opened, set to Specific mode of its node and initialised, all of
\* them once the search returns; on a transport that is no network nothing
\* is scanned and the search returns with exactly one device, connected by
\* create, open and init with no node id and the mode left as opened.
C21_SearchScansIffNetwork ==
    dev.flow = "search" =>
        /\ dev.scanned # None => dev.is_network
        /\ pc = "scan" => dev.is_network /\ dev.scanned = None
        /\ (pc = "scan" \/ (dev.scanned = None /\ dev.is_network)) =>
              dev.done = <<>> /\ dev.connected = <<>> /\ log = <<>>
        /\ dev.is_network /\ dev.scanned # None =>
              /\ IsPrefix(ConnectedNodes, [i \in 1..Len(dev.scanned[1]) |->
                                              Some(dev.scanned[1][i])])
              /\ pc \notin {"done", "panic"} =>
                    /\ dev.at = Len(dev.connected) + 1
                    /\ dev.at <= Len(dev.scanned[1])
                    /\ dev.node = Some(dev.scanned[1][dev.at])
              /\ \A i \in 1..Len(dev.connected) :
                    /\ dev.connected[i].mode = Specific(dev.scanned[1][i])
                    /\ dev.connected[i].done = <<"create", "open", "set_mode", "init">>
              /\ pc = "done" => Len(dev.connected) = Len(dev.scanned[1])
        /\ ~dev.is_network =>
              /\ dev.node = None /\ dev.mode = Broadcast
              /\ Len(dev.connected) <= 1
              /\ \A i \in 1..Len(dev.connected) :
                    /\ dev.connected[i].node = None
                    /\ dev.connected[i].mode = Broadcast
                    /\ dev.connected[i].done = <<"create", "open", "init">>
              /\ pc = "done" => Len(dev.connected) = 1

\* C21 witness: the search on a network returned after connecting the two
\* nodes the scan found, in the order of the scan
C21_Witness ==
    /\ dev.flow = "search" /\ dev.is_network /\ pc = "done"
    /\ dev.scanned = Some(<<20, 1>>)
    /\ ConnectedNodes = <<Some(20), Some(1)>>
    /\ dev.connected[2].mode = Specific(1)

(***************************************************************************)
(* Properties of the codec (checked under SpecCodec)                       *)
(***************************************************************************)
\* C17: for every request kind r, from_u16 applied to to_u16(r) returns r; and
\* no other request kind has the wire code of r.
C17_RequestRoundTrip ==
    /\ (codec.op = "from_u16" /\ codec.r \in RequestType) =>
          /\ codec.code = to_u16(codec.r)
          /\ codec.ret = codec.r
    /\ codec.op = "to_u16" =>
          \A r \in RequestType : to_u16(r) = codec.code => r = codec.r

\* C17 witness: WriteAppCRC went to 0x1102 and came back
C17_Witness ==
    /\ codec.op = "from_u16"
    /\ codec.r = "ReqFlashWriteAppCRC"
    /\ codec.code = 4354
    /\ codec.ret = "ReqFlashWriteAppCRC"

\* The 8-bit wire codes of the response kinds, as specified
ResponseWireCodes ==
    { <<"RespNone", 0>>,              \* 0x00
      <<"RespAck", 1>>,               \* 0x01
      <<"RespAckPageFull", 250>>,     \* 0xFA
      <<"RespErrPageFull", 249>>,     \* 0xF9
      <<"RespErrInvldArg", 248>>,     \* 0xF8
      <<"RespErrCRCInvld", 251>>,     \* 0xFB
      <<"RespErrNotSupported", 252>>, \* 0xFC
      <<"RespUnknownReq", 253>>,      \* 0xFD
      <<"RespErr", 254>> }            \* 0xFE

\* C18: for every response kind r, from_u8 applied to to_u8(r) returns r; and
\* to_u8 gives every response kind its specified wire code: None 0x00, Ack
\* 0x01, AckPageFull 0xFA, ErrPageFull 0xF9, ErrInvldArg 0xF8, ErrCRCInvld
\* 0xFB, ErrNotSupported 0xFC, UnknownReq 0xFD, Err 0xFE.
C18_ResponseRoundTripAndCodes ==
    /\ (codec.op = "from_u8" /\ codec.r \in ResponseType) =>
          /\ codec.code = to_u8(codec.r)
          /\ codec.ret = codec.r
    /\ codec.op = "to_u8" => <<codec.r, codec.code>> \in ResponseWireCodes
    /\ {p[1] : p \in ResponseWireCodes} = ResponseType

\* C18 witness: AckPageFull went to 0xFA and came back
C18_Witness ==
    /\ codec.op = "from_u8"
    /\ codec.r = "RespAckPageFull"
    /\ codec.code = 250
    /\ codec.ret = "RespAckPageFull"

\* The 16-bit wire codes of the request kinds, as specified
RequestWireCodes ==
    { <<"ReqPing", 1>>,                       \* 0x0001
      <<"ReqResetDevice", 17>>,               \* 0x0011
      <<"ReqStartApp", 18>>,                  \* 0x0012
      <<"ReqDevInfoBootloaderVersion", 257>>, \* 0x0101
      <<"ReqDevInfoBootloaderCRC", 258>>,     \* 0x0102
      <<"ReqDevInfoVID", 259>>,               \* 0x0103
      <<"ReqDevInfoPID", 260>>,               \* 0x0104
      <<"ReqDevInfoPRD", 261>>,               \* 0x0105
      <<"ReqDevInfoUID", 262>>,               \* 0x0106
      <<"ReqFlashInfoStartAddr", 513>>,       \* 0x0201
      <<"ReqFlashInfoPageSize", 514>>,        \* 0x0202
      <<"ReqFlashInfoNumPages", 515>>,        \* 0x0203
      <<"ReqAppInfoPageIdx", 769>>,           \* 0x0301
      <<"ReqAppInfoCRCCalc", 770>>,           \* 0x0302
      <<"ReqAppInfoCRCStrd", 771>>,           \* 0x0303
      <<"ReqFlashReadWord", 1025>>,           \* 0x0401
      <<"ReqPageBufferClear", 4097>>,         \* 0x1001
      <<"ReqPageBufferReadWord", 4098>>,      \* 0x1002
      <<"ReqPageBufferWriteWord", 4099>>,     \* 0x1003
      <<"ReqPageBufferCalcCRC", 4100>>,       \* 0x1004
      <<"ReqPageBufferWriteToFlash", 4101>>,  \* 0x1005
      <<"ReqFlashWriteErasePage", 4353>>,     \* 0x1101
      <<"ReqFlashWriteAppCRC", 4354>> }       \* 0x1102

\* C19: to_u16 gives every request kind its specified wire code, and from_u16
\* returns a request kind for exactly the 23 specified codes: for the code c
\* of kind r it returns r, and for every other 16-bit value it returns none.
C19_RequestWireCodes ==
    /\ codec.op = "to_u16" => <<codec.r, codec.code>> \in RequestWireCodes
    /\ codec.op = "from_u16" =>
          IF \E p \in RequestWireCodes : p[2] = codec.code
          THEN <<codec.ret, codec.code>> \in RequestWireCodes
          ELSE codec.ret = Panic
    /\ {p[1] : p \in RequestWireCodes} = RequestType
    /\ Cardinality({p[2] : p \in RequestWireCodes}) = 23

\* C19 witness: the code 0x1101 off the wire was decoded as ErasePage
C19_Witness ==
    /\ codec.op = "from_u16"
    /\ codec.r = NoKind
    /\ codec.code = 4353
    /\ codec.ret = "ReqFlashWriteErasePage"

====
